---- MODULE Spec2Model ----
(***************************************************************************)
(* Model of the iframe redirect handler (src/redirect-handler.js) and of   *)
(* the console helpers that drive it (src/testing-tools.js).               *)
(*                                                                         *)
(* JavaScript strings are sequences of one-character strings, so that      *)
(* toLowerCase, includes and JSON.stringify are computed, not assumed.     *)
(***************************************************************************)
EXTENDS Integers, Sequences, FiniteSets, TLC

VARIABLES
    dom,                  \* host document: which identifiable elements exist
    phase,                \* "unevaluated" | "waiting" | "initialized"
    iframe,               \* CONFIG.iframe is a found element
    loadingOverlay,       \* CONFIG.loadingOverlay is a found element
    maxRedirectAttempts,  \* CONFIG.maxRedirectAttempts
    redirectUrl,          \* CONFIG.redirectUrl
    readyState,           \* document.readyState: "loading" or "interactive"
    initCount,            \* number of runs of init()
    redirectAttempts,     \* CONFIG.redirectAttempts
    overlayActive,        \* the overlay element carries class 'active'
    timers,               \* pending navigation timers, oldest first
    trackCount,           \* number of trackRedirect invocations so far
    navLog,               \* assignments to window.location.href, in order
    pageAlive,            \* the host document has not been unloaded yet
    messageListener,      \* window 'message' listener is registered
    urlChecker,           \* the setInterval of setupUrlMonitoring is running
    lastUrl,              \* closure variable of setupUrlMonitoring
    observer,             \* the MutationObserver is connected
    loadListener,         \* iframe 'load' listener is registered
    customListeners,      \* the five custom-event listeners are registered
    analytics,            \* the globals gtag, ga, fbq: absent, ok or throws
    lastOp,               \* what the last callback did (observation only)
    cls                   \* last classifier application (ClassifierSpec only)

vars == <<dom, phase, iframe, loadingOverlay, maxRedirectAttempts,
          redirectUrl, readyState, initCount, redirectAttempts, overlayActive, timers, trackCount, navLog,
          pageAlive, messageListener, urlChecker, lastUrl, observer,
          loadListener, customListeners, analytics, lastOp, cls>>

(***************************************************************************)
(* Bounds of the model                                                     *)
(***************************************************************************)
MaxBatch == 2     \* added nodes delivered in one mutation batch
MaxPieces == 2    \* pieces concatenated into one classifier text input

(***************************************************************************)
(* Strings                                                                 *)
(***************************************************************************)
UpperToLower ==
    ("A" :> "a") @@ ("B" :> "b") @@ ("C" :> "c") @@ ("D" :> "d") @@
    ("E" :> "e") @@ ("F" :> "f") @@ ("G" :> "g") @@ ("H" :> "h") @@
    ("I" :> "i") @@ ("J" :> "j") @@ ("K" :> "k") @@ ("L" :> "l") @@
    ("M" :> "m") @@ ("N" :> "n") @@ ("O" :> "o") @@ ("P" :> "p") @@
    ("Q" :> "q") @@ ("R" :> "r") @@ ("S" :> "s") @@ ("T" :> "t") @@
    ("U" :> "u") @@ ("V" :> "v") @@ ("W" :> "w") @@ ("X" :> "x") @@
    ("Y" :> "y") @@ ("Z" :> "z")

LowerChar(c) == IF c \in DOMAIN UpperToLower THEN UpperToLower[c] ELSE c

toLowerCase(s) == [i \in 1..Len(s) |-> LowerChar(s[i])]

includes(s, t) ==
    \E i \in 0..(Len(s) - Len(t)) : SubSeq(s, i + 1, i + Len(t)) = t

s_thank == <<"t","h","a","n","k">>
s_success == <<"s","u","c","c","e","s","s">>
s_confirm == <<"c","o","n","f","i","r","m">>
s_complete == <<"c","o","m","p","l","e","t","e">>
s_booked == <<"b","o","o","k","e","d">>
s_scheduled == <<"s","c","h","e","d","u","l","e","d">>
s_appointment == <<"a","p","p","o","i","n","t","m","e","n","t">>
s_appointment_confirmed == s_appointment \o <<"-">> \o <<"c","o","n","f","i","r","m","e","d">>
s_status == <<"s","t","a","t","u","s">>
s_type == <<"t","y","p","e">>
s_bookingComplete == <<"b","o","o","k","i","n","g","C","o","m","p","l","e","t","e">>
s_failed == <<"f","a","i","l","e","d">>
s_self == <<"s","e","l","f">>
s_note == <<"n","o","t","e">>
s_hello == <<"h","e","l","l","o">>
s_yes == <<"y","e","s">>
s_https == <<"h","t","t","p","s",":","/","/">>
s_appointmentcore_com == s_appointment \o <<"c","o","r","e",".","c","o","m">>
s_evil_example == <<"e","v","i","l",".","e","x","a","m","p","l","e">>

SUCCESS_INDICATORS ==
    << s_thank, s_success, s_confirm, s_complete, s_booked, s_scheduled,
       s_appointment_confirmed >>

\* Array.prototype.some over SUCCESS_INDICATORS
someIndicator(lower) ==
    \E k \in 1..Len(SUCCESS_INDICATORS) : includes(lower, SUCCESS_INDICATORS[k])

(***************************************************************************)
(* JavaScript values: t is the type tag; b, n, s hold a boolean, number or *)
(* string; f holds the own enumerable fields of an object in insertion     *)
(* order, each [k |-> name, v |-> value].  A field value of type "cyclic"  *)
(* is a reference back to the enclosing object.                            *)
(***************************************************************************)
Prim(t, b, n, s) == [t |-> t, b |-> b, n |-> n, s |-> s]
JsUndefinedP == Prim("undefined", FALSE, 0, <<>>)
JsNullP == Prim("null", FALSE, 0, <<>>)
JsBoolP(b) == Prim("boolean", b, 0, <<>>)
JsNumP(n) == Prim("number", FALSE, n, <<>>)
JsBigIntP(n) == Prim("bigint", FALSE, n, <<>>)
JsStrP(s) == Prim("string", FALSE, 0, s)
JsCyclicP == Prim("cyclic", FALSE, 0, <<>>)

Val(p, f) == [t |-> p.t, b |-> p.b, n |-> p.n, s |-> p.s, f |-> f]
JsUndefined == Val(JsUndefinedP, <<>>)
JsNull == Val(JsNullP, <<>>)
JsBool(b) == Val(JsBoolP(b), <<>>)
JsNum(n) == Val(JsNumP(n), <<>>)
JsBigInt(n) == Val(JsBigIntP(n), <<>>)
JsStr(s) == Val(JsStrP(s), <<>>)
JsObj(f) == Val(Prim("object", FALSE, 0, <<>>), f)
JsArr(f) == Val(Prim("array", FALSE, 0, <<>>), f)
Field(k, v) == [k |-> k, v |-> v]

\* ToBoolean
Truthy(v) ==
    CASE v.t \in {"undefined", "null"} -> FALSE
      [] v.t = "boolean" -> v.b
      [] v.t \in {"number", "bigint"} -> v.n # 0
      [] v.t = "string" -> Len(v.s) > 0
      [] OTHER -> TRUE

\* typeof data === 'object' (the callers have excluded null through !data)
IsObject(v) == v.t \in {"object", "array", "null"}

\* data.key: own property lookup; arrays have no such named property
Get(data, key) ==
    IF data.t = "object" /\ \E i \in 1..Len(data.f) : data.f[i].k = key
    THEN data.f[CHOOSE i \in 1..Len(data.f) : data.f[i].k = key].v
    ELSE JsUndefinedP

StrictEqBool(v, b) == v.t = "boolean" /\ v.b = b
StrictEqStr(v, s) == v.t = "string" /\ v.s = s

Digits == <<"0","1","2","3","4","5","6","7","8","9">>
Quote == <<"\"">>

\* JSON.stringify of a primitive (n is a single digit in this model)
JsonPrim(p) ==
    CASE p.t = "string" -> Quote \o p.s \o Quote
      [] p.t = "number" -> <<Digits[p.n + 1]>>
      [] p.t = "boolean" -> IF p.b THEN <<"t","r","u","e">>
                                   ELSE <<"f","a","l","s","e">>
      [] OTHER -> <<"n","u","l","l">>

RECURSIVE JsonFields(_, _)
\* object members: undefined-valued members are omitted
JsonFields(f, first) ==
    IF f = <<>> THEN <<>>
    ELSE IF Head(f).v.t = "undefined" THEN JsonFields(Tail(f), first)
    ELSE (IF first THEN <<>> ELSE <<",">>)
         \o Quote \o Head(f).k \o Quote \o <<":">> \o JsonPrim(Head(f).v)
         \o JsonFields(Tail(f), FALSE)

RECURSIVE JsonElems(_, _)
\* array elements: undefined becomes null
JsonElems(f, first) ==
    IF f = <<>> THEN <<>>
    ELSE (IF first THEN <<>> ELSE <<",">>) \o JsonPrim(Head(f).v)
         \o JsonElems(Tail(f), FALSE)

\* JSON.stringify throws a TypeError on a cyclic structure or a BigInt
StringifyThrows(data) ==
    \/ data.t = "bigint"
    \/ \E i \in 1..Len(data.f) : data.f[i].v.t \in {"cyclic", "bigint"}

JSONstringify(data) ==
    CASE data.t = "object" -> <<"{">> \o JsonFields(data.f, TRUE) \o <<"}">>
      [] data.t = "array" -> <<"[">> \o JsonElems(data.f, TRUE) \o <<"]">>
      [] OTHER -> JsonPrim(data)

(***************************************************************************)
(* Success classifier.  Results are "true", "false" or "threw".            *)
(***************************************************************************)
Bool(b) == IF b THEN "true" ELSE "false"

\* variant: the comparison without toLowerCase
isSuccessUrlCaseSensitive(url) ==
    IF ~Truthy(url) THEN "false"
    ELSE Bool(someIndicator(url.s))

isSuccessUrl(url) ==
    IF ~Truthy(url) THEN "false"
    ELSE Bool(someIndicator(toLowerCase(url.s)))

containsSuccessIndicator(text) ==
    IF ~Truthy(text) THEN "false"
    ELSE Bool(someIndicator(toLowerCase(text.s)))

\* variant: the fallback serializes the values of an object without the names
\* of its fields
isSuccessMessageValuesOnly(data) ==
    IF ~Truthy(data) THEN "false"
    ELSE IF IsObject(data) /\ StrictEqBool(Get(data, s_success), TRUE)
         THEN "true"
    ELSE IF IsObject(data) /\ StrictEqStr(Get(data, s_status), s_success)
         THEN "true"
    ELSE IF IsObject(data) /\ StrictEqStr(Get(data, s_type), s_bookingComplete)
         THEN "true"
    ELSE IF StringifyThrows(data) THEN "threw"
    ELSE IF data.t = "object"
         THEN Bool(someIndicator(toLowerCase(JsonElems(data.f, TRUE))))
    ELSE Bool(someIndicator(toLowerCase(JSONstringify(data))))

isSuccessMessage(data) ==
    IF ~Truthy(data) THEN "false"
    ELSE IF IsObject(data) /\ StrictEqBool(Get(data, s_success), TRUE)
         THEN "true"
    ELSE IF IsObject(data) /\ StrictEqStr(Get(data, s_status), s_success)
         THEN "true"
    ELSE IF IsObject(data) /\ StrictEqStr(Get(data, s_type), s_bookingComplete)
         THEN "true"
    ELSE IF StringifyThrows(data) THEN "threw"
    ELSE Bool(someIndicator(toLowerCase(JSONstringify(data))))

\* variant: the providers are called in the reverse order
ProvidersFbqFirst == <<"fbq", "ga", "gtag">>

(***************************************************************************)
(* Analytics providers: each of the globals gtag, ga and fbq is absent,    *)
(* callable, or fails when called.                                         *)
(***************************************************************************)
Providers == <<"gtag", "ga", "fbq">>
ProviderNames == {Providers[i] : i \in 1..Len(Providers)}
Setup(gtag, ga, fbq) == ("gtag" :> gtag) @@ ("ga" :> ga) @@ ("fbq" :> fbq)
\* the pages considered: no provider, all working, all failing, a failing
\* one between two working ones, a failing one after an absent one
AnalyticsSetups ==
    { Setup("absent", "absent", "absent"), Setup("ok", "ok", "ok"),
      Setup("throws", "throws", "throws"), Setup("ok", "throws", "ok"),
      Setup("absent", "ok", "throws") }

Methods ==
    {"postMessage", "urlMonitoring", "mutationObserver", "navigationWatcher",
     "customEvent", "manual"}

NoTrack ==
    [method |-> "none", destination |-> JsUndefined, calls |-> <<>>,
     failed |-> FALSE, threw |-> FALSE]

RECURSIVE trackBodyNoTypeofTest(_, _, _)
\* variant: the providers are called without the typeof tests, so an
\* undefined one raises a ReferenceError
trackBodyNoTypeofTest(i, env, calls) ==
    IF i > Len(Providers) THEN [calls |-> calls, failed |-> FALSE]
    ELSE IF env[Providers[i]] \in {"absent", "throws"}
         THEN [calls |-> Append(calls, Providers[i]), failed |-> TRUE]
    ELSE trackBodyNoTypeofTest(i + 1, env, Append(calls, Providers[i]))

RECURSIVE trackBody(_, _, _)
\* the try block of trackRedirect: providers in source order, each called
\* when defined; a throwing call leaves the block
trackBody(i, env, calls) ==
    IF i > Len(Providers) THEN [calls |-> calls, failed |-> FALSE]
    ELSE IF env[Providers[i]] = "absent" THEN trackBody(i + 1, env, calls)
    ELSE IF env[Providers[i]] = "throws"
         THEN [calls |-> Append(calls, Providers[i]), failed |-> TRUE]
    ELSE trackBody(i + 1, env, Append(calls, Providers[i]))

\* variant: the body without its try/catch, a failing provider escapes
trackRedirectNoCatch(method) ==
    LET r == trackBody(1, analytics, <<>>)
    IN  [method |-> method, destination |-> redirectUrl, calls |-> r.calls,
         failed |-> r.failed, threw |-> r.failed]

\* try { ... } catch (e) { console.log(...) }: the failure never leaves;
\* destination is the CONFIG.redirectUrl the body hands on as 'redirect_url'
trackRedirect(method) ==
    LET r == trackBody(1, analytics, <<>>)
    IN  [method |-> method, destination |-> redirectUrl, calls |-> r.calls,
         failed |-> r.failed, threw |-> FALSE]

(***************************************************************************)
(* Redirect dispatcher.  A callback works on a record d of the dispatcher  *)
(* fields; d.track is the trackRedirect invocation made by the callback,   *)
(* d.hooks the method tags it has called callbacks.beforeRedirect with     *)
(* and d.threw says that an exception is propagating out of it.            *)
(***************************************************************************)
Disp ==
    [redirectAttempts |-> redirectAttempts, overlayActive |-> overlayActive,
     timers |-> timers, trackCount |-> trackCount, track |-> NoTrack,
     hooks |-> <<>>, threw |-> FALSE]

\* variant: the ceiling test written with > instead of >=
maxAttemptsReachedOffByOne(d) == d.redirectAttempts > maxRedirectAttempts

\* if (CONFIG.redirectAttempts >= CONFIG.maxRedirectAttempts) return;
maxAttemptsReached(d) == d.redirectAttempts >= maxRedirectAttempts

\* variant: the counter grows by two per accepted call
incrementAttemptsByTwo(d) == [d EXCEPT !.redirectAttempts = @ + 2]

\* CONFIG.redirectAttempts++
incrementAttempts(d) == [d EXCEPT !.redirectAttempts = @ + 1]

\* if (CONFIG.loadingOverlay) CONFIG.loadingOverlay.classList.add('active');
showOverlay(d) == [d EXCEPT !.overlayActive = IF loadingOverlay THEN TRUE ELSE @]

\* variant: two timers per accepted call
scheduleNavigationTwice(d) ==
    [d EXCEPT !.timers = Append(Append(@, d.redirectAttempts), d.redirectAttempts)]

\* setTimeout(function() {...}, CONFIG.redirectDelay): the timer is named
\* after the attempt that set it
scheduleNavigation(d) == [d EXCEPT !.timers = Append(@, d.redirectAttempts)]

\* variant: the ceiling only guards the counter and the timer, the overlay
\* and the analytics call come first
triggerRedirectLateGuard(d, method) ==
    IF d.threw THEN d
    ELSE LET d2 == showOverlay(d)
             t  == trackRedirect(method)
             d3 == [d2 EXCEPT !.trackCount = @ + 1, !.track = t]
         IN  IF t.threw THEN [d3 EXCEPT !.threw = TRUE]
             ELSE IF maxAttemptsReached(d3) THEN d3
             ELSE scheduleNavigation(incrementAttempts(d3))

triggerRedirect(d, method) ==
    IF d.threw THEN d
    ELSE IF maxAttemptsReached(d) THEN d
    ELSE LET d1 == incrementAttempts(d)
             d2 == showOverlay(d1)
             t  == trackRedirect(method)
             d3 == [d2 EXCEPT !.trackCount = @ + 1, !.track = t]
         IN  IF t.threw THEN [d3 EXCEPT !.threw = TRUE]
             ELSE scheduleNavigation(d3)

\* variant: the manual trigger sets the navigation timer itself
triggerManualRedirectDirect(d) == [d EXCEPT !.timers = Append(@, 0)]

\* window.triggerManualRedirect
triggerManualRedirect(d) == triggerRedirect(d, "manual")

Commit(d) ==
    /\ redirectAttempts' = d.redirectAttempts
    /\ overlayActive' = d.overlayActive
    /\ timers' = d.timers
    /\ trackCount' = d.trackCount

\* no address read was made, or the read was blocked
NoRead == [ok |-> FALSE, href |-> <<>>]

\* observation of the callback that has just run
Op(op, emitted, d) ==
    [op |-> op, emitted |-> emitted,
     accepted |-> d.redirectAttempts - redirectAttempts,
     threw |-> d.threw,
     track |-> d.track, hooks |-> d.hooks,
     origin |-> <<>>, data |-> JsUndefined, name |-> "", read |-> NoRead,
     elements |-> 0]

detectorVars == <<messageListener, urlChecker, lastUrl, observer,
                  loadListener, customListeners>>
configVars == <<dom, phase, iframe, loadingOverlay, maxRedirectAttempts,
                redirectUrl, readyState, initCount, analytics>>
dispatcherVars == <<redirectAttempts, overlayActive, timers, trackCount>>

(***************************************************************************)
(* Inputs of the environment                                               *)
(***************************************************************************)
CONFIG_maxRedirectAttempts == 3

\* 'https://studentmarketing.agency/thanks-appointment/'
CONFIG_redirectUrl ==
    JsStr(s_https
          \o <<"s","t","u","d","e","n","t","m","a","r","k","e","t","i","n","g">>
          \o <<".","a","g","e","n","c","y","/","t","h","a","n","k","s","-">>
          \o s_appointment \o <<"/">>)

TrustedOrigin == s_https \o <<"g","o",".">> \o s_appointmentcore_com
EvilOrigin == s_https \o s_evil_example
LookalikeOrigin == s_https \o s_appointmentcore_com \o <<".">> \o s_evil_example
Origins == {TrustedOrigin, EvilOrigin, LookalikeOrigin}

P_successTrue == JsObj(<<Field(s_success, JsBoolP(TRUE))>>)
P_statusFailed == JsObj(<<Field(s_status, JsStrP(s_failed))>>)
P_cyclicTruthy == JsObj(<<Field(s_success, JsNumP(1)), Field(s_self, JsCyclicP)>>)
P_successFalse == JsObj(<<Field(s_success, JsBoolP(FALSE))>>)
MsgPayloads ==
    {P_successTrue, P_successFalse, P_statusFailed, P_cyclicTruthy, JsNull}

\* the classifier and the origin test applied to the inputs above, computed
\* once per input
\* variant: only the booking widget's own origin passes
originIncludesExactHost == [o \in Origins |-> o = TrustedOrigin]

\* event.origin.includes('appointmentcore.com')
originIncludes == [o \in Origins |-> includes(o, s_appointmentcore_com)]
messageResult == [data \in MsgPayloads |-> isSuccessMessage(data)]

U_book == TrustedOrigin \o <<"/","b","o","o","k">>
U_thanks == U_book \o <<"/">> \o s_thank \o <<"-","y","o","u">>
Urls == {U_book, U_thanks}
urlResult == [u \in Urls |-> isSuccessUrl(JsStr(u))]

\* a read of CONFIG.iframe.contentWindow.location.href: blocked (throws) or not
Blocked == [ok |-> FALSE, href |-> <<>>]
Reads == {Blocked} \cup {[ok |-> TRUE, href |-> u] : u \in Urls}

\* an added node: nodeType 1 is an element, 3 a text node
N_elementBooked == [nodeType |-> 1, text |-> <<"B","o","o","k","e","d","!">>]
N_elementPlain == [nodeType |-> 1, text |-> s_hello]
N_textBooked == [nodeType |-> 3, text |-> s_booked]
Nodes == {N_elementBooked, N_elementPlain, N_textBooked}
\* the new text of a node whose character data changes
ChangedTexts == {s_booked, s_hello}
textResult == [n \in Nodes |-> containsSuccessIndicator(JsStr(n.text))]

RECURSIVE SeqsUpTo(_, _)
SeqsUpTo(S, n) ==
    IF n = 0 THEN {<<>>}
    ELSE LET shorter == SeqsUpTo(S, n - 1)
         IN  shorter \cup {Append(q, x) : q \in shorter, x \in S}

\* variant: one of the names is not listened for
eventNamesWithoutFormSubmitted ==
    {"appointmentBooked", "bookingComplete", "bookingSuccess",
     "appointmentSubmitted"}

eventNames ==
    {"appointmentBooked", "bookingComplete", "bookingSuccess",
     "appointmentSubmitted", "formSubmitted"}
\* names of the events a widget or the host page dispatches on window
DispatchedNames ==
    {"appointmentBooked", "bookingComplete", "bookingSuccess",
     "appointmentSubmitted", "formSubmitted", "click"}

(***************************************************************************)
(* Initial state: the host document at the moment the handler script is    *)
(* about to be evaluated.                                                  *)
(***************************************************************************)
NoOp ==
    [op |-> "none", emitted |-> 0, accepted |-> 0, threw |-> FALSE,
     track |-> NoTrack, hooks |-> <<>>, origin |-> <<>>,
     data |-> JsUndefined, name |-> "", read |-> NoRead, elements |-> 0]
NoCls == [fn |-> "none", input |-> JsUndefined, result |-> "false"]

InitPage ==
    /\ dom \in [iframe : BOOLEAN, overlay : BOOLEAN]
    /\ phase = "unevaluated"
    /\ iframe = FALSE
    /\ loadingOverlay = FALSE
    /\ maxRedirectAttempts \in 1..CONFIG_maxRedirectAttempts
    /\ analytics \in AnalyticsSetups
    /\ readyState \in {"loading", "interactive"}
    /\ initCount = 0
    /\ redirectAttempts = 0
    /\ overlayActive = FALSE
    /\ timers = <<>>
    /\ trackCount = 0
    /\ navLog = <<>>
    /\ pageAlive = TRUE
    /\ messageListener = FALSE
    /\ urlChecker = FALSE
    /\ lastUrl = <<>>
    /\ observer = FALSE
    /\ loadListener = FALSE
    /\ customListeners = FALSE
    /\ lastOp = NoOp

Init == InitPage /\ redirectUrl = CONFIG_redirectUrl /\ cls = NoCls

(***************************************************************************)
(* Bootstrap and init                                                      *)
(***************************************************************************)
\* function init(): looks the two elements up; without the iframe it returns
\* before any detector is set up
init ==
    /\ iframe' = dom.iframe
    /\ loadingOverlay' = dom.overlay
    /\ messageListener' = dom.iframe
    /\ urlChecker' = dom.iframe
    /\ observer' = dom.iframe
    /\ loadListener' = dom.iframe
    /\ customListeners' = dom.iframe
    /\ lastUrl' = <<>>
    /\ phase' = "initialized"
    /\ initCount' = initCount + 1

\* variant: the script runs init whatever the document's state
RunScriptNoDefer(loading) ==
    /\ pageAlive /\ phase = "unevaluated"
    /\ loading = (readyState = "loading")
    /\ init
    /\ lastOp' = [NoOp EXCEPT !.op = "script"]
    /\ UNCHANGED <<dom, maxRedirectAttempts, redirectUrl, readyState, analytics,
                   dispatcherVars, navLog, pageAlive, cls>>

\* evaluation of the script: installs window.triggerManualRedirect, then
\* either defers init to DOMContentLoaded or runs it
RunScript(loading) ==
    /\ pageAlive /\ phase = "unevaluated"
    /\ loading = (readyState = "loading")
    /\ IF loading
       THEN /\ phase' = "waiting"
            /\ UNCHANGED <<iframe, loadingOverlay, detectorVars, initCount>>
       ELSE init
    /\ lastOp' = [NoOp EXCEPT !.op = "script"]
    /\ UNCHANGED <<dom, maxRedirectAttempts, redirectUrl, readyState, analytics,
                   dispatcherVars, navLog, pageAlive, cls>>

DOMContentLoaded ==
    /\ pageAlive /\ phase = "waiting"
    /\ readyState' = "interactive"
    /\ init
    /\ lastOp' = [NoOp EXCEPT !.op = "DOMContentLoaded"]
    /\ UNCHANGED <<dom, maxRedirectAttempts, redirectUrl, analytics,
                   dispatcherVars, navLog, pageAlive, cls>>

(***************************************************************************)
(* Detectors                                                               *)
(***************************************************************************)
\* variant: the listener without the origin test
onMessageAnyOrigin(d, origin, data) ==
    LET r == messageResult[data]
    IN  IF r = "threw" THEN [d |-> [d EXCEPT !.threw = TRUE], emitted |-> 0]
        ELSE IF r = "true"
             THEN [d |-> triggerRedirect(d, "postMessage"), emitted |-> 1]
        ELSE [d |-> d, emitted |-> 0]

\* the 'message' listener of setupPostMessageListener
onMessage(d, origin, data) ==
    IF ~originIncludes[origin] THEN [d |-> d, emitted |-> 0]
    ELSE LET r == messageResult[data]
         IN  IF r = "threw" THEN [d |-> [d EXCEPT !.threw = TRUE], emitted |-> 0]
             ELSE IF r = "true"
                  THEN [d |-> triggerRedirect(d, "postMessage"), emitted |-> 1]
             ELSE [d |-> d, emitted |-> 0]

\* variant: the listener is removed once it has reported a success
MessageEventUnsubscribes(origin, data) ==
    /\ pageAlive /\ messageListener
    /\ LET r == onMessage(Disp, origin, data)
       IN  /\ messageListener' = (r.emitted = 0)
           /\ Commit(r.d)
           /\ lastOp' = [Op("message", r.emitted, r.d)
                            EXCEPT !.origin = origin, !.data = data]
    /\ UNCHANGED <<configVars, urlChecker, lastUrl, observer, loadListener,
                   customListeners, navLog, pageAlive, cls>>

MessageEvent(origin, data) ==
    /\ pageAlive /\ messageListener
    /\ LET r == onMessage(Disp, origin, data)
       IN  /\ Commit(r.d)
           /\ lastOp' = [Op("message", r.emitted, r.d)
                            EXCEPT !.origin = origin, !.data = data]
    /\ UNCHANGED <<configVars, detectorVars, navLog, pageAlive, cls>>

\* the interval callback of setupUrlMonitoring; its try/catch also swallows
\* whatever the dispatcher throws
\* variant: clearInterval that leaves the timer running
clearIntervalNoOp(running) == running

\* clearInterval(urlChecker)
clearInterval(running) == FALSE

\* variant: the callback gives up polling when the read is blocked
onTickStopOnError(d, last, read) ==
    LET changed == read.ok /\ read.href # last
        success == changed /\ urlResult[read.href] = "true"
    IN  [d       |-> IF success
                     THEN [triggerRedirect(d, "urlMonitoring") EXCEPT !.threw = FALSE]
                     ELSE d,
         lastUrl |-> IF changed THEN read.href ELSE last,
         running |-> IF success THEN clearInterval(TRUE) ELSE read.ok,
         emitted |-> IF success THEN 1 ELSE 0]

\* the body of the interval callback, from the dispatcher state d, the
\* remembered address last and the outcome of reading the iframe's address;
\* a blocked read throws into the empty catch
onTick(d, last, read) ==
    LET changed == read.ok /\ read.href # last
        success == changed /\ urlResult[read.href] = "true"
    IN  [d       |-> IF success
                     THEN [triggerRedirect(d, "urlMonitoring") EXCEPT !.threw = FALSE]
                     ELSE d,
         lastUrl |-> IF changed THEN read.href ELSE last,
         running |-> IF success THEN clearInterval(TRUE) ELSE TRUE,
         emitted |-> IF success THEN 1 ELSE 0]

PollTick(read) ==
    /\ pageAlive /\ urlChecker
    /\ LET r == onTick(Disp, lastUrl, read)
       IN  /\ lastUrl' = r.lastUrl
           /\ urlChecker' = r.running
           /\ Commit(r.d)
           /\ lastOp' = [Op("poll", r.emitted, r.d) EXCEPT !.read = read]
    /\ UNCHANGED <<configVars, messageListener, observer, loadListener,
                   customListeners, navLog, pageAlive, cls>>

RECURSIVE forEachAddedNodeAnyType(_, _)
\* variant: the walk without the nodeType test
forEachAddedNodeAnyType(nodes, r) ==
    IF nodes = <<>> \/ r.d.threw THEN r
    ELSE LET node == Head(nodes)
             hit == textResult[node] = "true"
         IN  forEachAddedNodeAnyType(Tail(nodes),
                 IF hit
                 THEN [d |-> triggerRedirect(r.d, "mutationObserver"),
                       connected |-> FALSE, emitted |-> r.emitted + 1]
                 ELSE r)

RECURSIVE forEachAddedNode(_, _)
\* mutation.addedNodes.forEach(...) over the whole batch; r is
\* [d, connected, emitted]
forEachAddedNode(nodes, r) ==
    IF nodes = <<>> \/ r.d.threw THEN r
    ELSE LET node == Head(nodes)
             hit == /\ node.nodeType = 1
                    /\ textResult[node] = "true"
         IN  forEachAddedNode(Tail(nodes),
                 IF hit
                 THEN [d |-> triggerRedirect(r.d, "mutationObserver"),
                       connected |-> FALSE, emitted |-> r.emitted + 1]
                 ELSE r)

MutationBatch(nodes) ==
    /\ pageAlive /\ observer
    /\ LET r == forEachAddedNode(nodes, [d |-> Disp, connected |-> TRUE,
                                         emitted |-> 0])
       IN  /\ observer' = r.connected
           /\ Commit(r.d)
           /\ lastOp' = [Op("mutation", r.emitted, r.d) EXCEPT
                            !.elements = Len(SelectSeq(nodes,
                                            LAMBDA n : n.nodeType = 1))]
    /\ UNCHANGED <<configVars, messageListener, urlChecker, lastUrl,
                   loadListener, customListeners, navLog, pageAlive, cls>>

\* a batch of one characterData record (the observer is set up with
\* characterData: true): the text of an existing node has become text, and
\* the record's addedNodes list is empty
CharacterDataChange(text) ==
    /\ pageAlive /\ observer
    /\ LET r == forEachAddedNode(<<>>, [d |-> Disp, connected |-> TRUE,
                                        emitted |-> 0])
       IN  /\ observer' = r.connected
           /\ Commit(r.d)
           /\ lastOp' = [Op("characterData", r.emitted, r.d) EXCEPT
                            !.data = JsStr(text)]
    /\ UNCHANGED <<configVars, messageListener, urlChecker, lastUrl,
                   loadListener, customListeners, navLog, pageAlive, cls>>

\* the iframe 'load' listener of setupNavigationWatcher
\* variant: the listener removes itself after its first success
onLoadOnce(d, read) ==
    LET success == read.ok /\ urlResult[read.href] = "true"
    IN  [d         |-> IF success
                       THEN [triggerRedirect(d, "navigationWatcher")
                                EXCEPT !.threw = FALSE]
                       ELSE d,
         listening |-> ~success,
         emitted   |-> IF success THEN 1 ELSE 0]

\* the body of the 'load' listener; it keeps no memory of earlier addresses
\* and is never removed, and a blocked read throws into the empty catch
onLoad(d, read) ==
    LET success == read.ok /\ urlResult[read.href] = "true"
    IN  [d         |-> IF success
                       THEN [triggerRedirect(d, "navigationWatcher")
                                EXCEPT !.threw = FALSE]
                       ELSE d,
         listening |-> TRUE,
         emitted   |-> IF success THEN 1 ELSE 0]

IframeLoad(read) ==
    /\ pageAlive /\ loadListener
    /\ LET r == onLoad(Disp, read)
       IN  /\ loadListener' = r.listening
           /\ Commit(r.d)
           /\ lastOp' = [Op("load", r.emitted, r.d) EXCEPT !.read = read]
    /\ UNCHANGED <<configVars, messageListener, urlChecker, lastUrl, observer,
                   customListeners, navLog, pageAlive, cls>>

\* window.dispatchEvent of an event called name; only the listed names have
\* a listener, and only once setupCustomEventListener has run
CustomEvent(name) ==
    /\ pageAlive /\ phase # "unevaluated"
    /\ LET heard == customListeners /\ name \in eventNames
           d == IF heard THEN triggerRedirect(Disp, "customEvent") ELSE Disp
       IN  /\ Commit(d)
           /\ lastOp' = [Op("customEvent", IF heard THEN 1 ELSE 0, d)
                            EXCEPT !.name = name]
    /\ UNCHANGED <<configVars, detectorVars, navLog, pageAlive, cls>>

\* simulateCustomEvent() of the testing tools
simulateCustomEvent == CustomEvent("appointmentBooked")

(***************************************************************************)
(* Manual triggers                                                         *)
(***************************************************************************)
\* variant: window.triggerManualRedirect is installed by init, once the
\* iframe has been found
ManualRedirectAfterInit ==
    /\ pageAlive /\ phase = "initialized" /\ iframe
    /\ LET d == triggerManualRedirect(Disp)
       IN  /\ Commit(d)
           /\ lastOp' = Op("manual", 1, d)
    /\ UNCHANGED <<configVars, detectorVars, navLog, pageAlive, cls>>

\* a call of window.triggerManualRedirect(), which the script body installs
ManualRedirect ==
    /\ pageAlive /\ phase # "unevaluated"
    /\ LET d == triggerManualRedirect(Disp)
       IN  /\ Commit(d)
           /\ lastOp' = Op("manual", 1, d)
    /\ UNCHANGED <<configVars, detectorVars, navLog, pageAlive, cls>>

\* variant: forceRedirect assigns window.location.href itself
forceRedirectDirect ==
    /\ pageAlive /\ phase # "unevaluated"
    /\ navLog' = Append(navLog, 0)
    /\ lastOp' = [NoOp EXCEPT !.op = "forceRedirect"]
    /\ UNCHANGED <<configVars, detectorVars, dispatcherVars, pageAlive, cls>>

\* forceRedirect() of the testing tools, which are loaded after the handler:
\* goes through window.triggerManualRedirect when it is a function,
\* otherwise assigns window.location.href itself (timer name 0)
forceRedirect ==
    /\ pageAlive /\ phase # "unevaluated"
    /\ IF phase # "unevaluated"
       THEN LET d == triggerManualRedirect(Disp)
            IN  /\ Commit(d)
                /\ lastOp' = Op("forceRedirect", 1, d)
                /\ UNCHANGED navLog
       ELSE /\ navLog' = Append(navLog, 0)
            /\ lastOp' = [NoOp EXCEPT !.op = "forceRedirect"]
            /\ UNCHANGED dispatcherVars
    /\ UNCHANGED <<configVars, detectorVars, pageAlive, cls>>

(***************************************************************************)
(* Delayed navigation and unload                                           *)
(***************************************************************************)
\* variant: the callback runs but does not assign the location
navigationCallbackNoAssign(log, timer) == log

\* function() { window.location.href = CONFIG.redirectUrl; }
navigationCallback(log, timer) == Append(log, timer)

\* variant: the timer set last is due first
dueTimerNewest(pending) == pending[Len(pending)]

\* the pending timer that is due next: the delay CONFIG.redirectDelay is the
\* same for all of them, so it is the one set first
dueTimer(pending) == Head(pending)

\* variant: the callback that fires clears the other pending timers
TimerFiresCancelsRest ==
    /\ pageAlive /\ timers # <<>>
    /\ navLog' = navigationCallback(navLog, dueTimer(timers))
    /\ timers' = <<>>
    /\ lastOp' = [NoOp EXCEPT !.op = "timer"]
    /\ UNCHANGED <<configVars, detectorVars, redirectAttempts, overlayActive,
                   trackCount, pageAlive, cls>>

\* the due timer fires and runs its callback; the other timers stay pending
TimerFires ==
    /\ pageAlive /\ timers # <<>>
    /\ navLog' = navigationCallback(navLog, dueTimer(timers))
    /\ LET i == CHOOSE k \in 1..Len(timers) :
                    /\ timers[k] = dueTimer(timers)
                    /\ \A j \in 1..(k - 1) : timers[j] # dueTimer(timers)
       IN  timers' = SubSeq(timers, 1, i - 1) \o SubSeq(timers, i + 1, Len(timers))
    /\ lastOp' = [NoOp EXCEPT !.op = "timer"]
    /\ UNCHANGED <<configVars, detectorVars, redirectAttempts, overlayActive,
                   trackCount, pageAlive, cls>>

\* a navigation that has been started replaces the document at some later
\* moment; until then callbacks of the old document keep running
Unload ==
    /\ pageAlive /\ navLog # <<>>
    /\ pageAlive' = FALSE
    /\ lastOp' = [NoOp EXCEPT !.op = "unload"]
    /\ UNCHANGED <<configVars, detectorVars, dispatcherVars, navLog, cls>>

Next ==
    \/ \E loading \in BOOLEAN : RunScript(loading)
    \/ DOMContentLoaded
    \/ \E o \in Origins, data \in MsgPayloads : MessageEvent(o, data)
    \/ \E read \in Reads : PollTick(read)
    \/ \E nodes \in SeqsUpTo(Nodes, MaxBatch) : MutationBatch(nodes)
    \/ \E text \in ChangedTexts : CharacterDataChange(text)
    \/ \E read \in Reads : IframeLoad(read)
    \/ \E name \in DispatchedNames : CustomEvent(name)
    \/ simulateCustomEvent
    \/ ManualRedirect
    \/ forceRedirect
    \/ TimerFires
    \/ Unload

Spec == Init /\ [][Next]_vars

\* values CONFIG.redirectUrl can be edited to: the shipped address, the empty
\* string, a missing property, and text that is no absolute address
ConfigUrls ==
    {CONFIG_redirectUrl, JsStr(<<>>), JsUndefined,
     JsStr(<<"n","o","t"," ","a"," ","u","r","l">>)}

\* the page under every edit of CONFIG.redirectUrl, with the shipped
\* ceiling and no analytics provider
ConfigInit ==
    /\ InitPage
    /\ maxRedirectAttempts = CONFIG_maxRedirectAttempts
    /\ analytics = Setup("absent", "absent", "absent")
    /\ redirectUrl \in ConfigUrls
    /\ cls = NoCls

ConfigSpec == ConfigInit /\ [][Next]_vars

\* timers that are due do fire while the document is alive
FairSpec == Spec /\ WF_vars(TimerFires)

(***************************************************************************)
(* The classifier on its own: each step applies one of the three functions *)
(* to an input and records the outcome in cls.                             *)
(***************************************************************************)
TextPieces ==
    { <<"x">>, <<" ">>, <<"/">>, <<"e">>, <<"k">>, <<"d">>,
      <<"T","h","a","n","k">>, <<"T","H","A","N","K">>, <<"t","h","a","n">>,
      <<"t","a","n","k">>, s_success, <<"S","U","C","C">>, <<"E","S","S">>,
      <<"C","o","n","f","i","r","m">>, <<"c","o","m","p","l","e","t">>,
      <<"b","o","o","k","e">>, <<"B","o","o","k","e","d">>,
      <<"S","c","h","e","d","u","l","e">>, s_appointment \o <<"-">>,
      s_appointment_confirmed }

RECURSIVE Concat(_)
Concat(pieces) ==
    IF pieces = <<>> THEN <<>> ELSE Head(pieces) \o Concat(Tail(pieces))

ClassifierTexts == {Concat(q) : q \in SeqsUpTo(TextPieces, MaxPieces)}
TextInputs == {JsUndefined, JsNull} \cup {JsStr(t) : t \in ClassifierTexts}

SuccessFields ==
    { <<>>, <<Field(s_success, JsBoolP(TRUE))>>, <<Field(s_success, JsBoolP(FALSE))>>,
      <<Field(s_success, JsNumP(1))>>, <<Field(s_success, JsNumP(0))>>,
      <<Field(s_success, JsStrP(s_yes))>>, <<Field(s_success, JsStrP(<<>>))>>,
      <<Field(s_success, JsBigIntP(1))>>, <<Field(s_success, JsNullP)>> }
StatusFields ==
    { <<>>, <<Field(s_status, JsStrP(s_success))>>, <<Field(s_status, JsStrP(s_failed))>>,
      <<Field(s_status, JsStrP(<<"S","u","c","c","e","s","s">>))>> }
TypeFields ==
    { <<>>, <<Field(s_type, JsStrP(s_bookingComplete))>>,
      <<Field(s_type, JsStrP(s_hello))>> }
OtherFields ==
    { <<>>, <<Field(s_self, JsCyclicP)>>, <<Field(s_note, JsStrP(s_hello))>>,
      <<Field(s_note, JsStrP(s_booked))>>, <<Field(s_note, JsUndefinedP)>> }

ObjectPayloads ==
    { JsObj(a \o b \o c \o e) :
        a \in SuccessFields, b \in StatusFields, c \in TypeFields, e \in OtherFields }
OtherPayloads ==
    { JsUndefined, JsNull, JsBool(TRUE), JsBool(FALSE), JsNum(0), JsNum(1),
      JsBigInt(1), JsStr(<<>>), JsStr(s_hello), JsStr(<<"T","h","a","n","k","s">>),
      JsArr(<<>>), JsArr(<<Field(<<>>, JsStrP(s_hello))>>),
      JsArr(<<Field(<<>>, JsStrP(s_booked)), Field(<<>>, JsUndefinedP)>>) }
ClassifierPayloads == ObjectPayloads \cup OtherPayloads

\* the input is drawn first, then one of the functions is applied to it
ClassifierInit ==
    /\ InitPage
    /\ dom = [iframe |-> TRUE, overlay |-> TRUE]
    /\ maxRedirectAttempts = CONFIG_maxRedirectAttempts
    /\ analytics = Setup("absent", "absent", "absent")
    /\ readyState = "interactive"
    /\ redirectUrl = CONFIG_redirectUrl
    /\ cls \in {[NoCls EXCEPT !.input = i] : i \in TextInputs \cup ClassifierPayloads}

ClassifyUrl(url) ==
    /\ cls.fn = "none" /\ cls.input = url
    /\ cls' = [fn |-> "isSuccessUrl", input |-> url, result |-> isSuccessUrl(url)]
    /\ UNCHANGED <<configVars, detectorVars, dispatcherVars, navLog, pageAlive, lastOp>>

ClassifyText(text) ==
    /\ cls.fn = "none" /\ cls.input = text
    /\ cls' = [fn |-> "containsSuccessIndicator", input |-> text,
               result |-> containsSuccessIndicator(text)]
    /\ UNCHANGED <<configVars, detectorVars, dispatcherVars, navLog, pageAlive, lastOp>>

ClassifyMessage(data) ==
    /\ cls.fn = "none" /\ cls.input = data
    /\ cls' = [fn |-> "isSuccessMessage", input |-> data,
               result |-> isSuccessMessage(data)]
    /\ UNCHANGED <<configVars, detectorVars, dispatcherVars, navLog, pageAlive, lastOp>>

ClassifierNext ==
    \/ \E url \in TextInputs : ClassifyUrl(url)
    \/ \E text \in TextInputs : ClassifyText(text)
    \/ \E data \in ClassifierPayloads : ClassifyMessage(data)

ClassifierSpec == ClassifierInit /\ [][ClassifierNext]_vars

(***************************************************************************)
(* Properties                                                              *)
(***************************************************************************)
\* navigation timers set so far: the pending ones and the ones that fired
TimersSet == Len(timers) + Len(navLog)

\* s contains t at some offset, compared position by position without
\* regard to letter case
ContainsIgnoringCase(s, t) ==
    \E i \in 0..(Len(s) - Len(t)) :
        \A j \in 1..Len(t) : LowerChar(s[i + j]) = LowerChar(t[j])

Vocabulary == {SUCCESS_INDICATORS[k] : k \in 1..Len(SUCCESS_INDICATORS)}

\* C1: at most one navigation to the redirect target is ever performed,
\* whatever detections arrive and however they are spaced
C1_AtMostOneNavigation == Len(navLog) <= 1

\* C2: once a detection has been accepted, a navigation eventually occurs
\* (timers that are due fire)
C2_AcceptedLeadsToNavigation == (redirectAttempts >= 1) ~> (navLog # <<>>)

C2_Witness == redirectAttempts >= 1 /\ navLog # <<>> /\ timers = <<>>

\* C3: the attempt counter never exceeds the configured ceiling
C3_AttemptsWithinCeiling == redirectAttempts <= maxRedirectAttempts

C3_Witness ==
    /\ redirectAttempts = maxRedirectAttempts
    /\ maxRedirectAttempts = CONFIG_maxRedirectAttempts
    /\ lastOp.emitted >= 1

\* C4: a dispatcher call made when the counter is at the ceiling changes
\* nothing (counter, overlay, analytics, timers); with a ceiling of 1 there is
\* never more than one attempt nor more than one navigation timer
C4_CeilingCallIsNoOp ==
    /\ [][ (lastOp'.emitted >= 1 /\ redirectAttempts >= maxRedirectAttempts)
           => /\ UNCHANGED <<redirectAttempts, overlayActive, timers,
                             trackCount, navLog>>
              /\ lastOp'.accepted = 0
              /\ lastOp'.track = NoTrack ]_vars
    /\ [](maxRedirectAttempts = 1 => redirectAttempts <= 1 /\ TimersSet <= 1)

C4_Witness ==
    /\ maxRedirectAttempts = 1 /\ redirectAttempts = 1
    /\ lastOp.emitted >= 1 /\ lastOp.accepted = 0
    /\ Len(timers) = 1

\* C5: a message whose origin does not contain 'appointmentcore.com' leaves
\* the dispatcher as it was, whatever the payload
C5_UntrustedMessageIgnored ==
    [][ (lastOp'.op = "message"
         /\ ~ContainsIgnoringCase(lastOp'.origin, s_appointmentcore_com))
        => /\ UNCHANGED <<dispatcherVars, navLog>>
           /\ lastOp'.emitted = 0 /\ ~lastOp'.threw ]_vars

C5_Witness ==
    /\ lastOp.op = "message" /\ lastOp.origin = EvilOrigin
    /\ lastOp.data = P_successTrue
    /\ redirectAttempts = 0 /\ timers = <<>> /\ navLog = <<>>

\* C6: the text and URL classifiers answer true exactly for strings that
\* contain a vocabulary token without regard to case, and answer false
\* (never throw) for empty, null and undefined input
C6_TextClassification ==
    cls.fn \in {"isSuccessUrl", "containsSuccessIndicator"}
    => cls.result =
         Bool(/\ cls.input.t = "string"
              /\ \E tok \in Vocabulary : ContainsIgnoringCase(cls.input.s, tok))

C6_Witness ==
    /\ cls.fn = "isSuccessUrl" /\ cls.result = "true"
    /\ cls.input.s # toLowerCase(cls.input.s)

\* C7: the message classifier answers true for every object with a truthy
\* 'success' field, a 'status' of 'success' or a 'type' of 'bookingComplete'
C7_StructuredShortcuts ==
    ( /\ cls.fn = "isSuccessMessage"
      /\ cls.input.t = "object"
      /\ \/ Truthy(Get(cls.input, s_success))
         \/ StrictEqStr(Get(cls.input, s_status), s_success)
         \/ StrictEqStr(Get(cls.input, s_type), s_bookingComplete) )
    => cls.result = "true"

\* C8: a manual trigger is an ordinary dispatcher call tagged manual: below
\* the ceiling it takes one attempt and sets one timer, at the ceiling it
\* changes nothing
C8_ManualThroughDispatcher ==
    [][ lastOp'.op \in {"manual", "forceRedirect"}
        => IF redirectAttempts < maxRedirectAttempts
           THEN /\ redirectAttempts' = redirectAttempts + 1
                /\ Len(timers') = Len(timers) + 1
                /\ trackCount' = trackCount + 1
                /\ lastOp'.track.method = "manual"
                /\ UNCHANGED navLog
           ELSE UNCHANGED <<dispatcherVars, navLog>> ]_vars

C8_Witness ==
    /\ lastOp.op = "forceRedirect" /\ lastOp.accepted = 0
    /\ redirectAttempts = maxRedirectAttempts
    /\ maxRedirectAttempts = CONFIG_maxRedirectAttempts

C10_AnalyticsNeverBlocksTimer ==
    [][ redirectAttempts' > redirectAttempts
        => /\ Len(timers') - Len(timers) = redirectAttempts' - redirectAttempts
           /\ ~lastOp'.threw ]_vars

C10_Witness ==
    /\ analytics = Setup("throws", "throws", "throws")
    /\ lastOp.accepted = 1 /\ lastOp.track.failed
    /\ Len(timers) = redirectAttempts

\* an absolute http(s) address
WellFormedTarget(u) ==
    /\ u.t = "string"
    /\ Len(u.s) > Len(s_https)
    /\ SubSeq(u.s, 1, Len(s_https)) = s_https

\* C11: with a missing or malformed redirectUrl the initialization refuses
\* to proceed: no detector is started, no detection is accepted and no
\* navigation is scheduled or performed
C11_InvalidConfigFatal ==
    ~WellFormedTarget(redirectUrl) =>
        /\ ~messageListener /\ ~urlChecker /\ ~observer
        /\ ~loadListener /\ ~customListeners
        /\ redirectAttempts = 0 /\ timers = <<>> /\ navLog = <<>>

\* C12: every accepted call invokes callbacks.beforeRedirect exactly once,
\* with the method tag it was called with
C12_BeforeRedirectHookInvoked ==
    lastOp.accepted >= 1 =>
        /\ Len(lastOp.hooks) = lastOp.accepted
        /\ \A k \in 1..Len(lastOp.hooks) : lastOp.hooks[k] = lastOp.track.method

\* C13: a tick whose read of the iframe's address is blocked emits no
\* detection, lets no error escape, changes nothing and leaves the timer
\* running; while no read has ever succeeded the poller keeps polling
C13_BlockedPollSilent ==
    /\ [][(lastOp'.op = "poll" /\ ~lastOp'.read.ok) =>
            /\ lastOp'.emitted = 0 /\ lastOp'.accepted = 0
            /\ ~lastOp'.threw
            /\ urlChecker'
            /\ UNCHANGED <<dispatcherVars, lastUrl, navLog>>]_vars
    /\ [](phase = "initialized" /\ iframe /\ lastUrl = <<>> => urlChecker)

C13_Witness ==
    /\ lastOp.op = "poll" /\ ~lastOp.read.ok
    /\ lastOp.emitted = 0 /\ urlChecker /\ lastUrl = <<>>

\* C14: whatever payload a trusted origin posts, the message listener
\* returns without throwing
C14_TrustedPayloadNeverThrows ==
    (lastOp.op = "message" /\ originIncludes[lastOp.origin]) => ~lastOp.threw

\* C15: when the page has no booking iframe, initialization still starts
\* the message listener, the custom-event listeners and the mutation watcher
C15_IframeAbsentStillListens ==
    (phase = "initialized" /\ ~dom.iframe) =>
        messageListener /\ customListeners /\ observer

\* C16: init runs at most once; it has run as soon as the script has been
\* evaluated on a document past loading, and otherwise runs when the
\* document becomes ready; while the document is loading no detector is
\* active
C16_InitOnceWhenReady ==
    /\ initCount <= 1
    /\ (phase = "initialized") = (initCount = 1)
    /\ readyState = "loading" =>
            /\ initCount = 0
            /\ ~messageListener /\ ~urlChecker /\ ~observer
            /\ ~loadListener /\ ~customListeners
    /\ (phase # "unevaluated" /\ readyState # "loading") => initCount = 1

C16_Witness ==
    /\ lastOp.op = "DOMContentLoaded" /\ initCount = 1
    /\ readyState = "interactive" /\ urlChecker /\ messageListener

\* C17: the navigations performed never outnumber the accepted calls, and
\* while no call has been accepted no timer is pending and the page stays
C17_NoNavigationWithoutAcceptance ==
    /\ Len(navLog) <= redirectAttempts
    /\ redirectAttempts = 0 => (timers = <<>> /\ navLog = <<>> /\ pageAlive)

C17_Witness ==
    /\ navLog # <<>> /\ Len(navLog) = redirectAttempts /\ timers = <<>>

\* C18: the mutation watcher emits at most one detection, also when one
\* batch of added nodes holds several matching elements
C18_MutationEmitsAtMostOnce ==
    lastOp.op = "mutation" => lastOp.emitted <= 1

\* C19: a tick emits exactly when the read succeeded, the address differs
\* from the remembered one and it carries a vocabulary token; an emitting
\* tick stops the timer whether or not the dispatcher accepted, a stopped
\* timer never ticks and never restarts
C19_PollerStopsOnFirstSuccess ==
    /\ [][lastOp'.op = "poll" =>
            /\ urlChecker
            /\ lastOp'.emitted \in {0, 1}
            /\ (lastOp'.emitted = 1) =
                   (/\ lastOp'.read.ok
                    /\ lastOp'.read.href # lastUrl
                    /\ \E w \in Vocabulary :
                           ContainsIgnoringCase(lastOp'.read.href, w))
            /\ urlChecker' = (lastOp'.emitted = 0)
            /\ lastOp'.accepted <= lastOp'.emitted]_vars
    /\ [][(phase = "initialized" /\ ~urlChecker) => ~urlChecker']_vars

C19_Witness ==
    /\ lastOp.op = "poll" /\ lastOp.emitted = 1 /\ lastOp.accepted = 0
    /\ ~urlChecker /\ redirectAttempts = maxRedirectAttempts

\* C20: the load listener is never removed; a load whose address read is
\* blocked is swallowed, and every load whose address is readable and
\* carries a vocabulary token emits a navigationWatcher detection, whatever
\* the earlier loads and the remembered address were
C20_NavigationWatcherNeverStops ==
    /\ [][lastOp'.op = "load" =>
            /\ loadListener /\ loadListener'
            /\ ~lastOp'.threw
            /\ (lastOp'.emitted = 1) =
                   (/\ lastOp'.read.ok
                    /\ \E w \in Vocabulary :
                           ContainsIgnoringCase(lastOp'.read.href, w))
            /\ lastOp'.emitted \in {0, 1}
            /\ lastOp'.accepted = 1 => lastOp'.track.method = "navigationWatcher"
            /\ UNCHANGED <<lastUrl, urlChecker>>]_vars
    /\ [](phase = "initialized" /\ iframe => loadListener)

C20_Witness ==
    /\ lastOp.op = "load" /\ lastOp.emitted = 1 /\ lastOp.accepted = 1
    /\ lastOp.read.href = lastUrl /\ ~urlChecker
    /\ redirectAttempts >= 2 /\ loadListener

\* s contains t at some offset, letter for letter
Contains(s, t) ==
    \E i \in 0..(Len(s) - Len(t)) : SubSeq(s, i + 1, i + Len(t)) = t

Min(a, b) == IF a < b THEN a ELSE b

\* C21: a received message makes the listener emit one postMessage detection
\* exactly when its origin contains 'appointmentcore.com' and the message
\* classifier answers true for its payload; a message from such an origin
\* classified negative changes nothing, and the listener stays registered
C21_MessageEmitsIffTrustedSuccess ==
    [][ lastOp'.op = "message" =>
          /\ messageListener /\ messageListener'
          /\ lastOp'.emitted \in {0, 1}
          /\ (lastOp'.emitted = 1) =
                 (/\ Contains(lastOp'.origin, s_appointmentcore_com)
                  /\ messageResult[lastOp'.data] = "true")
          /\ (/\ Contains(lastOp'.origin, s_appointmentcore_com)
              /\ messageResult[lastOp'.data] = "false")
                => (UNCHANGED <<dispatcherVars, navLog>> /\ ~lastOp'.threw)
          /\ lastOp'.accepted = 1 => lastOp'.track.method = "postMessage" ]_vars

C21_Witness ==
    /\ lastOp.op = "message" /\ lastOp.origin = TrustedOrigin
    /\ lastOp.emitted = 1 /\ lastOp.accepted = 1
    /\ redirectAttempts = 2 /\ messageListener

\* C22: the timers set so far, pending and fired, are as many as the
\* accepted calls, and a pending timer only leaves by firing: a step removes
\* at most one timer and that step runs one navigation callback
C22_OneTimerPerAcceptedCall ==
    /\ [](TimersSet = redirectAttempts)
    /\ [][ /\ Len(timers') >= Len(timers) - 1
           /\ Len(timers') < Len(timers) => Len(navLog') = Len(navLog) + 1
         ]_vars

C22_Witness ==
    /\ Len(timers) = 2 /\ Len(navLog) = 1 /\ redirectAttempts = 3

C24_AttemptCounterMonotone ==
    /\ redirectAttempts = 0
    /\ [][ /\ redirectAttempts' >= redirectAttempts
           /\ redirectAttempts' =
                 Min(redirectAttempts + lastOp'.emitted, maxRedirectAttempts)
         ]_vars

C24_Witness ==
    /\ navLog # <<>> /\ lastOp.emitted = 1 /\ lastOp.accepted = 1
    /\ redirectAttempts = 3

\* the method tag each kind of callback hands to the dispatcher
TagOf(op) ==
    CASE op = "message" -> "postMessage"
      [] op = "poll" -> "urlMonitoring"
      [] op = "mutation" -> "mutationObserver"
      [] op = "load" -> "navigationWatcher"
      [] op = "customEvent" -> "customEvent"
      [] op \in {"manual", "forceRedirect"} -> "manual"
      [] OTHER -> "none"

\* C25: every accepted call puts the overlay element, when the document has
\* one, into its loading state, also a manual call made before init has run
C25_OverlayShownWhenPresent ==
    (lastOp.accepted >= 1 /\ dom.overlay) => overlayActive

C27_NavigationOnlyInTimerCallback ==
    /\ [][ navLog' # navLog =>
             /\ lastOp'.op = "timer" /\ lastOp'.emitted = 0
             /\ timers # <<>>
             /\ Len(navLog') = Len(navLog) + 1
             /\ UNCHANGED <<redirectAttempts, trackCount, overlayActive>> ]_vars
    /\ [][ lastOp'.emitted >= 1 => UNCHANGED navLog ]_vars

C27_Witness ==
    /\ lastOp.op = "timer" /\ navLog = <<1>>
    /\ redirectAttempts >= 2 /\ timers # <<>>

\* C28: window.triggerManualRedirect can be called as soon as the script has
\* been evaluated, before init has run and on a page without iframe alike;
\* below the ceiling the call takes one attempt and sets one timer
C28_ManualTriggerIndependentOfInit ==
    /\ []((pageAlive /\ phase # "unevaluated") => ENABLED ManualRedirect)
    /\ [][ (lastOp'.op = "manual" /\ redirectAttempts < maxRedirectAttempts) =>
             /\ redirectAttempts' = redirectAttempts + 1
             /\ timers' = Append(timers, redirectAttempts + 1) ]_vars

C28_Witness ==
    /\ lastOp.op = "manual" /\ lastOp.accepted = 1
    /\ phase = "waiting" /\ readyState = "loading" /\ timers # <<>>

\* an object with a field that is serialized and whose name carries a
\* vocabulary token
HasTokenNamedField(v) ==
    /\ v.t = "object"
    /\ \E i \in 1..Len(v.f) :
          /\ v.f[i].v.t # "undefined"
          /\ \E w \in Vocabulary : ContainsIgnoringCase(v.f[i].k, w)

\* no field that JSON.stringify rejects
Serializable(v) == \A i \in 1..Len(v.f) : v.f[i].v.t \notin {"cyclic", "bigint"}

\* C29: a message from an origin containing 'appointmentcore.com' whose
\* payload is a serializable object with a field named after a vocabulary
\* token, such as {success: false}, makes the listener emit a postMessage
\* detection
C29_FieldNamesMatchInFallback ==
    [][ ( /\ lastOp'.op = "message"
          /\ Contains(lastOp'.origin, s_appointmentcore_com)
          /\ HasTokenNamedField(lastOp'.data)
          /\ Serializable(lastOp'.data) )
        => /\ lastOp'.emitted = 1
           /\ redirectAttempts < maxRedirectAttempts =>
                 (lastOp'.accepted = 1 /\ lastOp'.track.method = "postMessage")
      ]_vars

C29_Witness ==
    /\ lastOp.op = "message" /\ lastOp.origin = TrustedOrigin
    /\ lastOp.data = P_successFalse
    /\ lastOp.emitted = 1 /\ lastOp.accepted = 1

\* C30: a success message from https://appointmentcore.com.evil.example,
\* whose origin merely contains 'appointmentcore.com', is taken as a
\* detection, and once accepted it is followed by a navigation
C30_LookalikeOriginAccepted ==
    /\ []( ( /\ lastOp.op = "message"
             /\ lastOp.origin = LookalikeOrigin
             /\ lastOp.data = P_successTrue ) => lastOp.emitted = 1 )
    /\ ( /\ lastOp.op = "message"
         /\ lastOp.origin = LookalikeOrigin
         /\ lastOp.accepted = 1 ) ~> (navLog # <<>>)

C30_Witness ==
    /\ lastOp.op = "message" /\ lastOp.origin = LookalikeOrigin
    /\ lastOp.data = P_successTrue
    /\ lastOp.emitted = 1 /\ lastOp.accepted = 1 /\ Len(timers) = 1

\* C31: a batch without added element nodes (added text nodes only, or a
\* change of the character data of an existing node) hands nothing to the
\* dispatcher and leaves the observer connected, also when the text carries
\* a vocabulary token
C31_OnlyAddedElementsDetected ==
    [][ ( \/ lastOp'.op = "characterData"
          \/ (lastOp'.op = "mutation" /\ lastOp'.elements = 0) )
        => /\ lastOp'.emitted = 0 /\ lastOp'.accepted = 0
           /\ ~lastOp'.threw
           /\ UNCHANGED <<dispatcherVars, navLog, observer>> ]_vars

C31_Witness ==
    /\ lastOp.op = "characterData" /\ lastOp.data = JsStr(s_booked)
    /\ \E w \in Vocabulary : ContainsIgnoringCase(lastOp.data.s, w)
    /\ lastOp.emitted = 0 /\ observer /\ redirectAttempts = 0

\* the providers in the order of the source text
SourceOrder == <<"gtag", "ga", "fbq">>

\* the providers the page defines, in source order
DefinedProviders == SelectSeq(SourceOrder, LAMBDA p : analytics[p] # "absent")

\* the calls one dispatch must make: the defined providers in source order,
\* up to and including the first one that throws
ExpectedCalls ==
    LET failing == {k \in 1..Len(DefinedProviders) :
                        analytics[DefinedProviders[k]] = "throws"}
    IN  IF failing = {} THEN DefinedProviders
        ELSE SubSeq(DefinedProviders, 1,
                    CHOOSE k \in failing : \A j \in failing : k <= j)

\* C32: one analytics dispatch calls the defined providers in the order
\* gtag, ga, fbq and stops at the first that throws; the later ones are not
\* called, and the accepted call still sets its timer
C32_ProvidersInOrderOneBoundary ==
    [][ redirectAttempts' > redirectAttempts
        => /\ lastOp'.track.calls = ExpectedCalls
           /\ lastOp'.track.failed =
                 (\E p \in {"gtag", "ga", "fbq"} : analytics[p] = "throws")
           /\ ~lastOp'.track.threw /\ ~lastOp'.threw
           /\ Len(timers') = Len(timers) + (redirectAttempts' - redirectAttempts)
           /\ timers'[Len(timers')] = redirectAttempts' ]_vars

C32_Witness ==
    /\ analytics = Setup("ok", "throws", "ok")
    /\ lastOp.accepted = 1 /\ lastOp.track.failed
    /\ lastOp.track.calls = <<"gtag", "ga">>
    /\ timers # <<>> /\ timers[Len(timers)] = redirectAttempts

====
